---- MODULE Spec2Model ----
(***************************************************************************)
(* memDB (src/memDB.js): an in-memory store, a mapping from table names to *)
(* arrays of record references, with the operations set, get, getAll,      *)
(* update, delete, deleteAll and use, all reached through a Proxy.         *)
(*                                                                         *)
(* Records and arrays are JavaScript objects: the model keeps their        *)
(* identity (a record is an index into obj, an array carries an id) apart  *)
(* from their contents, because the code deletes by identity (indexOf) and *)
(* hands out live references.                                              *)
(***************************************************************************)
EXTENDS Integers, Sequences, FiniteSets, TLC

\* ------------------------------------------------------------------ bounds
\* number of record objects the caller owns
NRec == 2
\* longest table the caller builds
MaxLen == 2
\* number of arrays `db[table] = []` may allocate in one run
MaxArrays == 2
\* length of the table the order check starts from
OrderLen == 3

Rec == 1..NRec
Tables == {"users", "posts"}
Attrs == {"id", "name"}

\* ------------------------------------------------------- JavaScript values
\* A value is a number, a string or undefined.  A string is the decimal
\* numeral of n, so that ToNumber is defined on it.
Num(n) == [type |-> "number", n |-> n]
Str(n) == [type |-> "string", n |-> n]
Undefined == [type |-> "undefined", n |-> 0]

\* the abstract equality comparison `==` of `item[index] == value`
LooseEq(a, b) ==
    IF a.type = b.type
    THEN a.n = b.n
    ELSE IF a.type = "undefined" \/ b.type = "undefined"
         THEN FALSE
         ELSE a.n = b.n      \* number == string: the string is converted

\* ---------------------------------------------------------------- arguments
\* An argument that may be one thing or an array of things.
One(x) == [isArray |-> FALSE, val |-> <<x>>]
Many(s) == [isArray |-> TRUE, val |-> s]

\* [].concat(arg)
Concat(arg) == IF arg.isArray THEN arg.val ELSE <<arg.val[1]>>

\* the records and arrays of records the caller passes to set
Inputs ==
    {One(x) : x \in Rec} \cup {Many(<<>>)}
      \cup {Many(<<x, y>>) : x \in Rec, y \in Rec}

\* ------------------------------------------------------------------- state
VARIABLES
    primKey,   \* the primKey parameter of memDB
    db,        \* table name -> NoArray (no such property) or an array
    nextArr,   \* the identity the next array literal `[]` gets
    obj,       \* record -> its attributes (a missing one reads undefined)
    r,         \* the retrieval result the caller holds, or NoResult
    h,         \* the table handle the caller holds, or NoHandle
    all,       \* the array of getAll the caller holds, or NoRef
    via,       \* which proxy made the last call: "db" or "handle"
    last       \* the last call: its operation and outcome

vars == <<primKey, db, nextArr, obj, r, h, all, via, last>>

NoArray == [id |-> 0, items |-> <<>>]
NoResult == [table |-> "", items |-> <<>>]
NoHandle == [table |-> "", target |-> 0]
\* an array the caller holds: the table it was returned for, its identity,
\* whether delete db[table] has run for that table since, and the items it
\* was left with then (while it is the table's array its items are db's)
NoRef == [table |-> "", id |-> 0, gone |-> FALSE, items |-> <<>>]

\* Array.isArray(db[table])
IsArray(a) == a.id # 0

\* the items of a held array: those of the table whose array it is, or
\* those it had when its table was removed
Items(a) ==
    IF a.id # 0 /\ db[a.table].id = a.id THEN db[a.table].items ELSE a.items

\* the caller's record objects: {id: 1, name: 2}, {id: 1, name: "1"}, {id: 2}, ...
Objects(x) ==
    [id   |-> IF x % 3 = 0 THEN Num(2) ELSE Num(1),
     name |-> CASE x % 3 = 1 -> Num(2) [] x % 3 = 2 -> Str(1) [] OTHER -> Undefined]

Outcome(op, status, ret, calls) ==
    [op |-> op, status |-> status, ret |-> ret, calls |-> calls]

Init ==
    /\ primKey \in Attrs
    /\ db = [t \in Tables |-> NoArray]
    /\ nextArr = 1
    /\ obj = [x \in Rec |-> Objects(x)]
    /\ r = NoResult
    /\ h = NoHandle
    /\ all = NoRef
    /\ via = "db"
    /\ last = Outcome("memDB", "ok", 0, <<>>)

\* --------------------------------------------------------------------- set
\* _set without the Array.isArray test: db[table] = [] on every call
_set_reset(table, o) ==
    LET objs == IF o.isArray THEN o.val ELSE <<o.val[1]>>
    IN  /\ nextArr <= MaxArrays
        /\ Len(objs) <= MaxLen
        /\ db' = [db EXCEPT ![table] = [id |-> nextArr, items |-> objs]]
        /\ nextArr' = nextArr + 1
        /\ last' = Outcome("set", "ok", 0, <<>>)
        /\ UNCHANGED <<primKey, obj, r, h, all>>

_set(table, o) ==
    LET fresh == ~IsArray(db[table])
        arr == IF fresh THEN [id |-> nextArr, items |-> <<>>] ELSE db[table]
        objs == Concat(o)
    IN  /\ fresh => nextArr <= MaxArrays
        /\ Len(arr.items) + Len(objs) <= MaxLen
        /\ db' = [db EXCEPT ![table] = [arr EXCEPT !.items = @ \o objs]]
        /\ nextArr' = IF fresh THEN nextArr + 1 ELSE nextArr
        /\ last' = Outcome("set", "ok", 0, <<>>)
        /\ UNCHANGED <<primKey, obj, r, h, all>>

\* ----------------------------------------------------------------- filters
\* A filter element is a number, a string, an object of attribute/value
\* pairs (in property order) or undefined.
Scalar(v) == [type |-> v.type, n |-> v.n, entries |-> <<>>]
Obj(entries) == [type |-> "object", n |-> 0, entries |-> entries]
Pair(attr, v) == [attr |-> attr, val |-> v]
Missing == [type |-> "undefined", n |-> 0, entries |-> <<>>]

\* the filters the caller passes to get, update and delete
Clauses ==
    {Scalar(Num(1)), Scalar(Str(1)),
     Obj(<<>>),
     Obj(<<Pair("id", Num(1)), Pair("name", Num(1))>>),
     Missing}

Filters ==
    {One(c) : c \in Clauses}
      \cup {Many(<<>>),
            Many(<<Scalar(Num(2)), Obj(<<Pair("name", Num(2))>>)>>),
            Many(<<Obj(<<Pair("name", Num(1))>>), Scalar(Num(1))>>),
            Many(<<Obj(<<Pair("name", Num(2))>>), Missing>>),
            Many(<<Scalar(Num(2)), Obj(<<>>)>>)}

\* Normalize with the primary key written out as 'id'
Normalize_id(key, pk) ==
    [i \in 1..Len(key) |->
        IF key[i].type = "string" \/ key[i].type = "number"
        THEN [type |-> "object", n |-> 0,
              entries |-> <<[attr |-> "id", val |-> [type |-> key[i].type, n |-> key[i].n]]>>]
        ELSE key[i]]

\* key.forEach((val, index) => { if(typeof val == 'string' || ...) ... })
Normalize(key, pk) ==
    [i \in 1..Len(key) |->
        IF key[i].type = "string" \/ key[i].type = "number"
        THEN Obj(<<Pair(pk, [type |-> key[i].type, n |-> key[i].n])>>)
        ELSE key[i]]

\* item[index]
Read(o, x, attr) == IF attr \in Attrs THEN o[x][attr] ELSE Undefined

\* Every with a clause without entries matching nothing
Every_nonempty(o, x, entries) ==
    /\ Len(entries) > 0
    /\ \A i \in 1..Len(entries) : LooseEq(Read(o, x, entries[i].attr), entries[i].val)

\* Object.entries(keyObj).every(([index, value]) => item[index] == value)
Every(o, x, entries) ==
    \A i \in 1..Len(entries) : LooseEq(Read(o, x, entries[i].attr), entries[i].val)

\* key.some(keyObj => ...) from clause i on: "true", "false", or "throw"
\* when Object.entries is reached with undefined
RECURSIVE Some(_, _, _, _)
Some(o, x, key, i) ==
    IF i > Len(key) THEN "false"
    ELSE IF key[i].type = "undefined" THEN "throw"
    ELSE IF Every(o, x, key[i].entries) THEN "true"
    ELSE Some(o, x, key, i + 1)

\* db[table].filter(item => key.some(...)): the matching items in table
\* order; Throws when the callback throws for some item
FilterThrows(o, items, key) ==
    \E i \in 1..Len(items) : Some(o, items[i], key, 1) = "throw"

Filter(o, items, key) ==
    LET Test(x) == Some(o, x, key, 1) = "true"
    IN  SelectSeq(items, Test)

\* the outcome of a call that throws: nothing else changes
Throw(op, error) ==
    /\ last' = Outcome(op, error, 0, <<>>)
    /\ UNCHANGED <<primKey, db, nextArr, obj, r, h, all>>

\* --------------------------------------------------------------------- get
\* Matches with (db[table] || []).filter(...)
Matches_lenient(table, key) ==
    LET k == Normalize(Concat(key), primKey)
    IN  IF FilterThrows(obj, db[table].items, k)
        THEN [status |-> "TypeError", items |-> <<>>]
        ELSE [status |-> "ok", items |-> Filter(obj, db[table].items, k)]

\* lines 102-108: the filter is normalised, then db[table].filter(...) runs
\* (a TypeError when db[table] is undefined or Object.entries throws)
Matches(table, key) ==
    LET k == Normalize(Concat(key), primKey)
    IN  IF ~IsArray(db[table]) THEN [status |-> "TypeError", items |-> <<>>]
        ELSE IF FilterThrows(obj, db[table].items, k)
             THEN [status |-> "TypeError", items |-> <<>>]
             ELSE [status |-> "ok", items |-> Filter(obj, db[table].items, k)]

\* _get creating the table when it is absent, as _set does
_get_create(table, key) ==
    IF ~IsArray(db[table])
    THEN /\ nextArr <= MaxArrays
         /\ db' = [db EXCEPT ![table] = [id |-> nextArr, items |-> <<>>]]
         /\ nextArr' = nextArr + 1
         /\ r' = [table |-> table, items |-> <<>>]
         /\ last' = Outcome("get", "ok", 0, <<>>)
         /\ UNCHANGED <<primKey, obj, h, all>>
    ELSE LET m == Matches(table, key)
         IN  IF m.status # "ok" THEN Throw("get", m.status)
             ELSE /\ r' = [table |-> table, items |-> m.items]
                  /\ last' = Outcome("get", "ok", 0, <<>>)
                  /\ UNCHANGED <<primKey, db, nextArr, obj, h, all>>

_get(table, key) ==
    LET m == Matches(table, key)
    IN  IF m.status # "ok" THEN Throw("get", m.status)
        ELSE /\ r' = [table |-> table, items |-> m.items]
             /\ last' = Outcome("get", "ok", 0, <<>>)
             /\ UNCHANGED <<primKey, db, nextArr, obj, h, all>>

\* ------------------------------------------------------------- deleteItem
Max(a, b) == IF a > b THEN a ELSE b
Min(a, b) == IF a < b THEN a ELSE b

\* Array.prototype.indexOf: the 0-based index of the first element that is
\* the same object, or -1
IndexOf(arr, x) ==
    IF \E i \in 1..Len(arr) : arr[i] = x
    THEN (CHOOSE i \in 1..Len(arr) : arr[i] = x /\ \A j \in 1..(i - 1) : arr[j] # x) - 1
    ELSE -1

\* Array.prototype.splice(start, deleteCount) with no items to insert: a
\* negative start counts from the end
Splice(arr, start, deleteCount) ==
    LET len == Len(arr)
        from == IF start < 0 THEN Max(len + start, 0) ELSE Min(start, len)
        count == Min(Max(deleteCount, 0), len - from)
    IN  SubSeq(arr, 1, from) \o SubSeq(arr, from + count + 1, len)

\* deleteItem moving the last element into the hole and dropping the end:
\* dbTable[i] = dbTable[dbTable.length - 1]; dbTable.pop()
deleteItem_swap(dbTable, item) ==
    LET i == IndexOf(dbTable, item)
        n == Len(dbTable)
    IN  IF n = 0 THEN dbTable
        ELSE IF i < 0 THEN SubSeq(dbTable, 1, n - 1)
        ELSE SubSeq([dbTable EXCEPT ![i + 1] = dbTable[n]], 1, n - 1)

deleteItem(dbTable, item) == Splice(dbTable, IndexOf(dbTable, item), 1)

\* items.forEach(item => deleteItem(dbTable, item))
RECURSIVE ForEachDelete(_, _)
ForEachDelete(dbTable, items) ==
    IF items = <<>> THEN dbTable
    ELSE ForEachDelete(deleteItem(dbTable, Head(items)), Tail(items))

\* result_delete dropping a table it has emptied: delete db[table]
result_delete_prune ==
    /\ r # NoResult
    /\ IF r.items = <<>>
       THEN /\ last' = Outcome("result.delete", "ok", 0, <<>>)
            /\ UNCHANGED <<primKey, db, nextArr, obj, r, h, all>>
       ELSE IF ~IsArray(db[r.table])
            THEN Throw("result.delete", "TypeError")
            ELSE /\ db' = IF ForEachDelete(db[r.table].items, r.items) = <<>>
                          THEN [db EXCEPT ![r.table] = NoArray]
                          ELSE [db EXCEPT ![r.table].items = ForEachDelete(@, r.items)]
                 /\ last' = Outcome("result.delete", "ok", 0, <<>>)
                 /\ UNCHANGED <<primKey, nextArr, obj, r, h, all>>

\* the delete helper of a retrieval result (lines 109-111): db[table] is
\* looked up by name when the helper runs
result_delete ==
    /\ r # NoResult
    /\ IF r.items = <<>>
       THEN /\ last' = Outcome("result.delete", "ok", 0, <<>>)
            /\ UNCHANGED <<primKey, db, nextArr, obj, r, h, all>>
       ELSE IF ~IsArray(db[r.table])
            THEN Throw("result.delete", "TypeError")
            ELSE /\ db' = [db EXCEPT ![r.table].items = ForEachDelete(@, r.items)]
                 /\ last' = Outcome("result.delete", "ok", 0, <<>>)
                 /\ UNCHANGED <<primKey, nextArr, obj, r, h, all>>

\* ------------------------------------------------------------------ getAll
\* _getAll reading a property of db[table], as in db[table].slice()
_getAll_strict(table) ==
    IF ~IsArray(db[table]) THEN Throw("getAll", "TypeError")
    ELSE /\ last' = Outcome("getAll", "ok", db[table].id, <<>>)
         /\ UNCHANGED <<primKey, db, nextArr, obj, r, h>>

\* _getAll returning a copy, db[table].slice(): an array of its own
_getAll_copy(table) ==
    /\ last' = Outcome("getAll", "ok", IF IsArray(db[table]) THEN nextArr ELSE 0, <<>>)
    /\ UNCHANGED <<primKey, db, nextArr, obj, r, h>>

\* db[table] itself is returned (0 stands for undefined); the caller either
\* drops it or keeps it, see db_getAll and all_getAll
_getAll(table) ==
    /\ last' = Outcome("getAll", "ok", db[table].id, <<>>)
    /\ UNCHANGED <<primKey, db, nextArr, obj, r, h>>

\* ------------------------------------------------------- update and delete
\* the scope with a get declared next to _get
Scope_get ==
    {"primKey", "db", "deleteItem", "_set", "_get", "_getAll", "_update",
     "_delete", "_deleteAll", "_use", "features", "memDB", "get"}

\* the identifiers bound where the bodies of _update and _delete are
\* evaluated: the parameter and the const declarations of memDB
Scope ==
    {"primKey", "db", "deleteItem", "_set", "_get", "_getAll", "_update",
     "_delete", "_deleteAll", "_use", "features", "memDB"}

\* the callbacks the caller passes to update: "rename" sets item.name = 1;
\* "failSecond" does the same on its first call and throws on its second
Callbacks == {"rename", "failSecond"}

CallbackThrows(cb, items) == cb = "failSecond" /\ Len(items) >= 2

\* the items the callback is called with
Called(cb, items) == IF CallbackThrows(cb, items) THEN SubSeq(items, 1, 2) ELSE items

\* the items the callback has changed
Changed(cb, items) ==
    IF CallbackThrows(cb, items) THEN {items[1]} ELSE {items[i] : i \in 1..Len(items)}

_update(table, key, callback) ==
    IF "get" \notin Scope THEN Throw("update", "ReferenceError")
    ELSE LET m == Matches(table, key)
         IN  IF m.status # "ok" THEN Throw("update", m.status)
             ELSE /\ obj' = [x \in Rec |->
                               IF x \in Changed(callback, m.items)
                               THEN [obj[x] EXCEPT !.name = Num(1)] ELSE obj[x]]
                  /\ last' = Outcome("update", IF CallbackThrows(callback, m.items)
                                     THEN "Error" ELSE "ok",
                                     0, Called(callback, m.items))
                  /\ UNCHANGED <<primKey, db, nextArr, r, h, all>>

_delete(table, key) ==
    IF "get" \notin Scope THEN Throw("delete", "ReferenceError")
    ELSE LET m == Matches(table, key)
         IN  IF m.status # "ok" THEN Throw("delete", m.status)
             ELSE /\ db' = [db EXCEPT ![table].items = ForEachDelete(@, m.items)]
                  /\ last' = Outcome("delete", "ok", 0, <<>>)
                  /\ UNCHANGED <<primKey, nextArr, obj, r, h, all>>

\* --------------------------------------------------------------- deleteAll
\* _deleteAll emptying the array instead: db[table].length = 0
_deleteAll_clear(table) ==
    IF ~IsArray(db[table]) THEN Throw("deleteAll", "TypeError")
    ELSE /\ db' = [db EXCEPT ![table].items = <<>>]
         /\ last' = Outcome("deleteAll", "ok", 0, <<>>)
         /\ UNCHANGED <<primKey, nextArr, obj, r, h, all>>

\* delete db[table]: the property goes, the array stays with whoever holds it
_deleteAll(table) ==
    /\ db' = [db EXCEPT ![table] = NoArray]
    /\ all' = IF all.id # 0 /\ all.table = table
              THEN [all EXCEPT !.gone = TRUE, !.items = Items(all)]
              ELSE all
    /\ last' = Outcome("deleteAll", "ok", 0, <<>>)
    /\ UNCHANGED <<primKey, nextArr, obj, r, h>>

\* --------------------------------------------------------------------- use
\* new Proxy(db[table], ...): a TypeError when the target is undefined
_use(table) ==
    IF ~IsArray(db[table]) THEN Throw("use", "TypeError")
    ELSE /\ h' = [table |-> table, target |-> db[table].id]
         /\ last' = Outcome("use", "ok", 0, <<>>)
         /\ UNCHANGED <<primKey, db, nextArr, obj, r, all>>

\* features[prop] called with the table and the arguments a
features(prop, table, a) ==
    CASE prop = "set" -> _set(table, a[1])
      [] prop = "get" -> _get(table, a[1])
      [] prop = "getAll" -> _getAll(table)
      [] prop = "update" -> _update(table, a[1], a[2])
      [] prop = "delete" -> _delete(table, a[1])
      [] prop = "deleteAll" -> _deleteAll(table)
      [] prop = "use" -> _use(table)

\* ProxyGet with the handle tied to the array it was made for instead of
\* the table name: the call fails once that array has left the store
ProxyGet_target(table, prop, args) ==
    IF table # "" /\ db[table].id # h.target THEN Throw(prop, "TypeError")
    ELSE IF table # "" THEN features(prop, table, args)
    ELSE features(prop, args[1], Tail(args))

\* the get trap of the proxy: a handle made by use(table) puts its table
\* before the caller's arguments, the store's own proxy passes them on
ProxyGet(table, prop, args) ==
    IF table # "" THEN features(prop, table, args)
    ELSE features(prop, args[1], Tail(args))

\* ---------------------------------------------- calls on the store's proxy
\* memDB returns _use(): the trap passes the caller's arguments on
db_set(t, o) == via' = "db" /\ ProxyGet("", "set", <<t, o>>)
db_get(t, key) == via' = "db" /\ ProxyGet("", "get", <<t, key>>)
db_getAll(t) == via' = "db" /\ ProxyGet("", "getAll", <<t>>) /\ UNCHANGED all
db_update(t, key, cb) == via' = "db" /\ ProxyGet("", "update", <<t, key, cb>>)
db_delete(t, key) == via' = "db" /\ ProxyGet("", "delete", <<t, key>>)
db_deleteAll(t) == via' = "db" /\ ProxyGet("", "deleteAll", <<t>>)
db_use(t) == via' = "db" /\ ProxyGet("", "use", <<t>>)

\* ------------------------------- calls on the handle use(table) returned
h_set(o) == h # NoHandle /\ via' = "handle" /\ ProxyGet(h.table, "set", <<o>>)
h_get(key) == h # NoHandle /\ via' = "handle" /\ ProxyGet(h.table, "get", <<key>>)
h_getAll ==
    h # NoHandle /\ via' = "handle" /\ ProxyGet(h.table, "getAll", <<>>) /\ UNCHANGED all
h_update(key, cb) ==
    h # NoHandle /\ via' = "handle" /\ ProxyGet(h.table, "update", <<key, cb>>)
h_delete(key) == h # NoHandle /\ via' = "handle" /\ ProxyGet(h.table, "delete", <<key>>)
h_deleteAll == h # NoHandle /\ via' = "handle" /\ ProxyGet(h.table, "deleteAll", <<>>)
h_use == h # NoHandle /\ via' = "handle" /\ ProxyGet(h.table, "use", <<>>)

\* ResultDelete removing the records of r from every table of the store
ResultDelete_shared ==
    /\ via' = via
    /\ r # NoResult
    /\ db' = [t \in Tables |->
                IF IsArray(db[t])
                THEN [db[t] EXCEPT !.items = ForEachDelete(@, r.items)]
                ELSE db[t]]
    /\ last' = Outcome("result.delete", "ok", 0, <<>>)
    /\ UNCHANGED <<primKey, nextArr, obj, r, h, all>>

\* result.delete() on the result the caller holds
ResultDelete == via' = via /\ result_delete

\* the store's operations and the delete helper of the result the caller holds
Next ==
    \/ \E t \in Tables, o \in Inputs : db_set(t, o)
    \/ \E t \in Tables, key \in Filters : db_get(t, key)
    \/ \E t \in Tables : db_getAll(t)
    \/ \E t \in Tables, key \in Filters, cb \in Callbacks : db_update(t, key, cb)
    \/ \E t \in Tables, key \in Filters : db_delete(t, key)
    \/ \E t \in Tables : db_deleteAll(t)
    \/ ResultDelete

Spec == Init /\ [][Next]_vars

\* the tables the caller asks a handle for
HandleTables == {"users"}

\* the same with use and the calls through the handle it returns
NextUse ==
    \/ Next
    \/ \E t \in HandleTables : db_use(t)
    \/ \E o \in Inputs : h_set(o)
    \/ \E key \in Filters : h_get(key)
    \/ h_getAll
    \/ \E key \in Filters, cb \in Callbacks : h_update(key, cb)
    \/ \E key \in Filters : h_delete(key)
    \/ h_deleteAll
    \/ h_use

\* the store as memDB() makes it, with the default primKey
InitUse == Init /\ primKey = "id"

SpecUse == InitUse /\ [][NextUse]_vars

\* all = db.getAll(t): the caller keeps what getAll returned
all_getAll(t) ==
    /\ via' = "db"
    /\ ProxyGet("", "getAll", <<t>>)
    /\ all' = IF last'.ret = 0 THEN NoRef
              ELSE [table |-> t, id |-> last'.ret, gone |-> FALSE, items |-> <<>>]

\* the store's operations with a caller that may keep the array of getAll
NextLive ==
    \/ Next
    \/ \E t \in Tables : all_getAll(t)

SpecLive == InitUse /\ [][NextLive]_vars

\* a store later in its life: r was retrieved from 'users' when the table
\* held one record, r.delete() emptied the table, and the table has since
\* received OrderLen records, in any order and with repetitions
InitOrder ==
    /\ primKey = "id"
    /\ \E items \in [1..OrderLen -> Rec] :
          db = [t \in Tables |-> IF t = "users" THEN [id |-> 1, items |-> items]
                                 ELSE NoArray]
    /\ nextArr = 2
    /\ obj = [x \in Rec |-> Objects(x)]
    /\ \E x \in Rec : r = [table |-> "users", items |-> <<x>>]
    /\ h = NoHandle
    /\ all = NoRef
    /\ via = "db"
    /\ last = Outcome("set", "ok", 0, <<>>)

SpecOrder == InitOrder /\ [][Next]_vars

\* ================================================================= claims
\* the elements of a sequence
Range(s) == {s[i] : i \in 1..Len(s)}

\* the records of a sequence that are not in a set, in the sequence's order
Without(s, gone) ==
    LET Keep(x) == x \notin gone
    IN  SelectSeq(s, Keep)

\* the filters whose clauses are all scalars or attribute-equality objects
ValidFilters == {f \in Filters : \A i \in 1..Len(f.val) : f.val[i].type # "undefined"}

\* the attribute/value pairs a clause stands for: a scalar k stands for
\* {primKey: k}
PairsOf(c) ==
    IF c.type = "object"
    THEN {<<c.entries[i].attr, c.entries[i].val>> : i \in 1..Len(c.entries)}
    ELSE {<<primKey, [type |-> c.type, n |-> c.n]>>}

\* a record matches a filter iff it matches at least one clause, and a clause
\* iff each of its pairs equals (JavaScript ==) the record's value
MatchesFilter(x, f) ==
    \E i \in 1..Len(f.val) :
        \A p \in PairsOf(f.val[i]) : LooseEq(obj[x][p[1]], p[2])

\* the records of table t that match f, in table order
Selected(t, f) ==
    LET Test(x) == MatchesFilter(x, f)
    IN  SelectSeq(db[t].items, Test)

\* C1: r.delete() removes from the table only records that were in r when
\* it was created: whatever happened to the store since, every record of the
\* table that is not in r is still in the table afterwards, at its place
\* among the others.
C1_ResultDeleteRemovesOnlyItsRecords ==
    [][(ResultDelete /\ IsArray(db[r.table]))
        => Without(db'[r.table].items, Range(r.items))
             = Without(db[r.table].items, Range(r.items))]_vars

\* C2: update on an existing table calls the callback once for each record
\* get returns, in table order, and the store shows the callback's changes
\* on those records and on no others.
C2_UpdateCallsCallbackOnMatches ==
    [][\A t \in Tables, key \in ValidFilters :
        (last'.op = "update" /\ IsArray(db[t]) /\ db_update(t, key, "rename"))
        => /\ last'.status = "ok"
           /\ last'.calls = Selected(t, key)
           /\ \A x \in Rec : obj'[x] = IF x \in Range(Selected(t, key))
                                       THEN [obj[x] EXCEPT !.name = Num(1)]
                                       ELSE obj[x]
           /\ db' = db]_vars

\* C3: delete(table, filter) on an existing table removes every matching
\* record and no other, the rest keeping their order.
C3_DeleteRemovesMatches ==
    [][\A t \in Tables, key \in ValidFilters :
        (last'.op = "delete" /\ IsArray(db[t]) /\ db_delete(t, key))
        => /\ last'.status = "ok"
           /\ db'[t].items = Without(db[t].items, Range(Selected(t, key)))]_vars

\* C4: get on an existing table with a filter of scalars and equality
\* objects returns exactly the stored records that match at least one
\* clause, in table order, each stored record once.
C4_GetReturnsMatches ==
    [][\A t \in Tables, key \in ValidFilters :
        (last'.op = "get" /\ IsArray(db[t]) /\ db_get(t, key))
        => /\ last'.status = "ok"
           /\ r' = [table |-> t, items |-> Selected(t, key)]]_vars

\* a get that selected the second of two stored records
C4_Witness ==
    /\ last.op = "get" /\ last.status = "ok"
    /\ primKey = "name"
    /\ db[r.table].items = <<1, 2>>
    /\ r.items = <<2>>

\* C5: set creates the table when absent and keeps it otherwise; the table
\* is then its previous sequence followed by the given records in input
\* order, whatever their primary keys, and a get by a primary-key value
\* returns every stored record with that value in insertion order.
C5_SetAppends ==
    [][/\ \A t \in Tables, o \in Inputs :
            (last'.op = "set" /\ db_set(t, o))
            => /\ last'.status = "ok"
               /\ IsArray(db'[t])
               /\ IsArray(db[t]) => db'[t].id = db[t].id
               /\ db'[t].items = db[t].items \o o.val
               /\ \A u \in Tables \ {t} : db'[u] = db[u]
       /\ \A t \in Tables, k \in {Scalar(Num(1))} :
            (last'.op = "get" /\ IsArray(db[t]) /\ db_get(t, One(k)))
            => LET Same(x) == obj[x][primKey] = [type |-> k.type, n |-> k.n]
               IN  SelectSeq(r'.items, Same) = SelectSeq(db[t].items, Same)]_vars

\* two records with the same primary-key value, stored one after the other
\* and returned by a get
C5_Witness ==
    /\ last.op = "get" /\ last.status = "ok"
    /\ primKey = "id" /\ obj[1].id = obj[2].id
    /\ db[r.table].items = <<1, 2>>
    /\ r.items = <<1, 2>>

\* C6: each of the six operations called on a handle h = use(name) has the
\* result and the effect of the store operation called with name as its
\* first argument, in every state reached after h was obtained.
C6_HandleForwards ==
    [][via' = "handle"
        => /\ \A o \in Inputs :
                (last'.op = "set" /\ h_set(o)) => ProxyGet("", "set", <<h.table, o>>)
           /\ \A key \in Filters :
                (last'.op = "get" /\ h_get(key)) => ProxyGet("", "get", <<h.table, key>>)
           /\ (last'.op = "getAll" /\ h_getAll) => ProxyGet("", "getAll", <<h.table>>)
           /\ \A key \in Filters, cb \in Callbacks :
                (last'.op = "update" /\ h_update(key, cb))
                => ProxyGet("", "update", <<h.table, key, cb>>)
           /\ \A key \in Filters :
                (last'.op = "delete" /\ h_delete(key))
                => ProxyGet("", "delete", <<h.table, key>>)
           /\ (last'.op = "deleteAll" /\ h_deleteAll)
                => ProxyGet("", "deleteAll", <<h.table>>)]_vars

\* a get through a handle whose table was removed and created again
C6_Witness ==
    /\ via = "handle" /\ last.op = "get" /\ last.status = "ok"
    /\ IsArray(db[h.table]) /\ db[h.table].id # h.target
    /\ r.table = h.table /\ r.items # <<>>

\* C7: use(name) returns a handle in every store state, also when the table
\* has never received an insert or was removed by deleteAll.
C7_UseAlwaysReturnsHandle ==
    last.op = "use" => last.status = "ok"

C9_MissingTableFails ==
    [][/\ \A t \in Tables :
            (/\ ~IsArray(db[t])
             /\ last'.op \in {"get", "update", "delete"}
             /\ \/ \E key \in Filters : db_get(t, key)
                \/ \E key \in Filters, cb \in Callbacks : db_update(t, key, cb)
                \/ \E key \in Filters : db_delete(t, key))
            => last'.status # "ok" /\ db' = db /\ obj' = obj
       /\ \A t \in Tables :
            (~IsArray(db[t]) /\ IsArray(db'[t])) => last'.op = "set"]_vars

\* a get has thrown while no table holds a record: on an existing table
\* the filter callback would not have run, so the table was missing
C9_Witness ==
    /\ last.op = "get" /\ last.status = "TypeError"
    /\ \E t \in Tables : IsArray(db[t])
    /\ \A t \in Tables : db[t].items = <<>>

C11_DeleteAllRemovesTable ==
    [][\A t \in Tables :
        (last'.op = "deleteAll" /\ db_deleteAll(t))
        => /\ last'.status = "ok"
           /\ ~IsArray(db'[t]) /\ db'[t].items = <<>>
           /\ \A u \in Tables \ {t} : db'[u] = db[u]
           /\ obj' = obj
           /\ ~IsArray(db[t]) => db' = db]_vars

\* after a deleteAll one table is absent, the other still holds records,
\* and two arrays have been made: a table that existed is gone
C11_Witness ==
    /\ last.op = "deleteAll" /\ last.status = "ok"
    /\ nextArr = 3
    /\ \E t \in Tables : ~IsArray(db[t])
    /\ \E u \in Tables : db[u].items # <<>>

\* C12: get with a filter holding a clause that is neither a scalar nor an
\* attribute-equality object (here: undefined) ends in an error in every
\* table state, an empty table included, and so never yields a result.
C12_InvalidFilterFails ==
    [][\A t \in Tables, key \in Filters \ ValidFilters :
        (last'.op = "get" /\ db_get(t, key))
        => last'.status # "ok" /\ r' = r]_vars

\* the filters of scalars and equality objects that are or contain {}
EmptyClauseFilters ==
    {f \in ValidFilters : \E i \in 1..Len(f.val) : f.val[i] = Obj(<<>>)}

\* C13: on an existing table a get with a filter that is or contains {}
\* returns every record of the table in table order, a get with [] returns
\* an empty result, and the delete() of an empty result changes nothing.
C13_EmptyClauseAndEmptyFilter ==
    [][/\ \A t \in Tables, key \in EmptyClauseFilters :
            (last'.op = "get" /\ IsArray(db[t]) /\ db_get(t, key))
            => /\ last'.status = "ok"
               /\ r' = [table |-> t, items |-> db[t].items]
       /\ \A t \in Tables :
            (last'.op = "get" /\ IsArray(db[t]) /\ db_get(t, Many(<<>>)))
            => /\ last'.status = "ok"
               /\ r' = [table |-> t, items |-> <<>>]
       /\ (last'.op = "result.delete" /\ r.items = <<>> /\ ResultDelete)
            => last'.status = "ok" /\ db' = db /\ obj' = obj]_vars

\* a get has returned both records of a table in table order although
\* their names differ: with name as the primary key only a filter with {}
\* selects both
C13_Witness ==
    /\ last.op = "get" /\ last.status = "ok"
    /\ primKey = "name"
    /\ db[r.table].items = <<2, 1>>
    /\ r.items = <<2, 1>>

\* C14 as stated: whenever the table exists, the array an earlier getAll
\* returned for it holds the records getAll returns now, in the same order,
\* whatever operations came in between, deleteAll and a new set included.
C14_ReturnedSequenceIsLive ==
    (all.id # 0 /\ IsArray(db[all.table]))
    => Items(all) = db[all.table].items

\* C14: as long as deleteAll has not been called on the table since, the
\* array an earlier getAll returned is the table's own array: the table
\* exists and the array holds the table's records in the table's order
\* after any set, get, update, delete and result.delete().
C14_LiveUntilDeleteAll ==
    (all.id # 0 /\ ~all.gone)
    => /\ db[all.table].id = all.id
       /\ Items(all) = db[all.table].items

\* the caller holds the array of a table that has since lost a record to
\* r.delete() and still has one
C14_Witness ==
    /\ all.id # 0 /\ ~all.gone
    /\ last.op = "result.delete" /\ last.status = "ok"
    /\ r.table = all.table /\ r.items # <<>>
    /\ Len(db[all.table].items) = 1

\* C15: get is a pure read: whether it returns or throws, every table has
\* the same array with the same records in the same order after the call,
\* no table is created or removed, and no record is changed.
C15_GetIsPureRead ==
    [][(last'.op = "get" /\ \E t \in Tables, key \in Filters : db_get(t, key))
        => db' = db /\ nextArr' = nextArr /\ obj' = obj]_vars

\* a get has thrown on its filter while both tables exist and the store
\* holds records
C15_Witness ==
    /\ last.op = "get" /\ last.status = "TypeError"
    /\ \A t \in Tables : IsArray(db[t])
    /\ \E t \in Tables : db[t].items # <<>>

\* C16: a table comes into existence by a set on its name and goes by a
\* deleteAll on its name, and by nothing else: a set leaves its table
\* existing, a deleteAll leaves it absent, and every other step (get,
\* getAll, update, delete, r.delete()) leaves each table existing or absent
\* as it was, with the same array.  A table that has lost all its records
\* still exists: getAll returns its empty array and get an empty result.
C16_TableLifecycle ==
    [][\A t \in Tables :
        /\ (last'.op = "set" /\ \E o \in Inputs : db_set(t, o)) => IsArray(db'[t])
        /\ (last'.op = "deleteAll" /\ db_deleteAll(t)) => ~IsArray(db'[t])
        /\ db'[t].id # db[t].id
            => \/ ~IsArray(db[t]) /\ last'.op = "set" /\ \E o \in Inputs : db_set(t, o)
               \/ ~IsArray(db'[t]) /\ last'.op = "deleteAll" /\ db_deleteAll(t)
        /\ (last'.op = "getAll" /\ IsArray(db[t]) /\ db[t].items = <<>> /\ db_getAll(t))
            => last'.status = "ok" /\ last'.ret = db[t].id
        /\ \A key \in ValidFilters :
            (last'.op = "get" /\ IsArray(db[t]) /\ db[t].items = <<>> /\ db_get(t, key))
            => last'.status = "ok" /\ r' = [table |-> t, items |-> <<>>]]_vars

\* r.delete() has run with records to remove and its table exists and is
\* empty
C16_Witness ==
    /\ last.op = "result.delete" /\ last.status = "ok"
    /\ r.items # <<>>
    /\ IsArray(db[r.table]) /\ db[r.table].items = <<>>

\* a is b with some elements left out: what is left keeps b's order
RECURSIVE IsSubseq(_, _)
IsSubseq(a, b) ==
    IF a = <<>> THEN TRUE
    ELSE IF b = <<>> THEN FALSE
    ELSE IF Head(a) = Head(b) THEN IsSubseq(Tail(a), Tail(b))
    ELSE IsSubseq(a, Tail(b))

\* b is a with elements added at the end
IsPrefix(a, b) == Len(a) <= Len(b) /\ SubSeq(b, 1, Len(a)) = a

\* C17: a table lists its records in insertion order: every step either
\* adds records at the end of a table's array or leaves the records that
\* remain in it in the order they had, so no set, get, update, delete or
\* r.delete() moves one surviving record past another.
C17_InsertionOrderKept ==
    [][\A t \in Tables :
        (IsArray(db[t]) /\ db'[t].id = db[t].id)
        => \/ IsPrefix(db[t].items, db'[t].items)
           \/ IsSubseq(db'[t].items, db[t].items)]_vars

\* r.delete() has removed one record from a table of three, and two
\* different records remain
C17_Witness ==
    /\ last.op = "result.delete" /\ last.status = "ok"
    /\ Len(r.items) = 1
    /\ Len(db[r.table].items) = OrderLen - 1
    /\ db[r.table].items[1] # db[r.table].items[2]

\* the step is a call that names table t: one of the six operations with t
\* as its table, or the delete() of a result retrieved from t
Names(t) ==
    \/ last'.op = "set" /\ \E o \in Inputs : db_set(t, o)
    \/ last'.op = "get" /\ \E key \in Filters : db_get(t, key)
    \/ last'.op = "getAll" /\ db_getAll(t)
    \/ last'.op = "update" /\ \E key \in Filters, cb \in Callbacks : db_update(t, key, cb)
    \/ last'.op = "delete" /\ \E key \in Filters : db_delete(t, key)
    \/ last'.op = "deleteAll" /\ db_deleteAll(t)
    \/ last'.op = "result.delete" /\ r.table = t /\ ResultDelete

\* C18: a call that names table t leaves every other table as it was:
\* existing or absent, with the same array holding the same records in the
\* same order.
C18_TableIsolation ==
    [][\A t \in Tables :
        Names(t) => \A u \in Tables \ {t} : db'[u] = db[u]]_vars

\* r.delete() has run on the table r came from, which no longer holds the
\* first record of r, while another table still holds that same record
C18_Witness ==
    /\ last.op = "result.delete" /\ last.status = "ok"
    /\ r.items # <<>>
    /\ r.items[1] \notin Range(db[r.table].items)
    /\ \E u \in Tables \ {r.table} : r.items[1] \in Range(db[u].items)
====
